---- MODULE Spec2Model ----
(***************************************************************************)
(* The query subsystem of krisrowe/notes: parse_query (tokenizer and       *)
(* recursive-descent parser, src/notes/sdk/query.py) and the AppSheet      *)
(* selector compiler (src/notes/sdk/providers/appsheet/provider.py).       *)
(*                                                                         *)
(* A Python str is a sequence of one-character strings, so that slicing,   *)
(* strip(), upper() and startswith() are computed character by character. *)
(* Indices are 0-based as in the source: q[i] is written At(q, i).         *)
(***************************************************************************)
EXTENDS Integers, Sequences, FiniteSets, TLC

VARIABLES query, sort, pc, scan, tokens, token_pos, stack, ret, steps, ast,
          condition, selector

vars == <<query, sort, pc, scan, tokens, token_pos, stack, ret, steps, ast,
          condition, selector>>

(***************************************************************************)
(* Characters and str methods                                              *)
(***************************************************************************)
QUOTE == "\""
LowerLetters == <<"a","b","c","d","e","f","g","h","i","j","k","l","m",
                  "n","o","p","q","r","s","t","u","v","w","x","y","z">>
UpperLetters == <<"A","B","C","D","E","F","G","H","I","J","K","L","M",
                  "N","O","P","Q","R","S","T","U","V","W","X","Y","Z">>

\* a blank is the only whitespace
WhitespaceBlankOnly == {" "}

\* Python's whitespace characters (those the inputs draw from): what
\* str.isspace() tests and what str.strip() removes
Whitespace == {" ", "\t", "\n"}

\* str.isspace() of one character
IsSpace(c) == c \in Whitespace

UpperChar(c) ==
    IF \E i \in 1..26 : LowerLetters[i] = c
    THEN UpperLetters[CHOOSE i \in 1..26 : LowerLetters[i] = c]
    ELSE c

LowerChar(c) ==
    IF \E i \in 1..26 : UpperLetters[i] = c
    THEN LowerLetters[CHOOSE i \in 1..26 : UpperLetters[i] = c]
    ELSE c

\* str.upper() and str.lower()
Upper(s) == [i \in 1..Len(s) |-> UpperChar(s[i])]
Lower(s) == [i \in 1..Len(s) |-> LowerChar(s[i])]

\* q[i], 0-based
At(q, i) == q[i + 1]

\* q[i:j], 0-based, j clipped to len(q) as Python slicing does
Slice(q, i, j) == SubSeq(q, i + 1, IF j > Len(q) THEN Len(q) ELSE j)

\* s.startswith(p)
StartsWith(s, p) == Len(s) >= Len(p) /\ SubSeq(s, 1, Len(p)) = p

RECURSIVE LStripSet(_, _)
LStripSet(s, cs) ==
    IF s # <<>> /\ Head(s) \in cs THEN LStripSet(Tail(s), cs) ELSE s

RECURSIVE RStripSet(_, _)
RStripSet(s, cs) ==
    IF s # <<>> /\ s[Len(s)] \in cs
    THEN RStripSet(SubSeq(s, 1, Len(s) - 1), cs) ELSE s

\* s.strip(): leading and trailing whitespace removed
StripSpace(s) == RStripSet(LStripSet(s, Whitespace), Whitespace)

\* s.strip('"'): every leading and trailing double quote removed
StripQuotes(s) == RStripSet(LStripSet(s, {QUOTE}), {QUOTE})

(***************************************************************************)
(* QueryParser._tokenize                                                   *)
(***************************************************************************)
\* while j < len(query) and query[j] != '"': j += 1
RECURSIVE ScanQuoted(_, _)
ScanQuoted(q, j) ==
    IF j < Len(q) /\ At(q, j) # QUOTE THEN ScanQuoted(q, j + 1) ELSE j

\* while j < len(query) and not query[j].isspace() and query[j] not in '()':
\*     if query[j] == '"': break
\*     j += 1
RECURSIVE ScanWord(_, _)
ScanWord(q, j) ==
    IF j < Len(q) /\ ~IsSpace(At(q, j)) /\ At(q, j) \notin {"(", ")"}
    THEN IF At(q, j) = QUOTE THEN j ELSE ScanWord(q, j + 1)
    ELSE j

\* the loop body emitting a quoted phrase without its quotes
TokenizeStepBareQuoted(q, k, toks) ==
    IF IsSpace(At(q, k)) THEN [i |-> k + 1, tokens |-> toks]
    ELSE IF At(q, k) = QUOTE THEN
        LET j == ScanQuoted(q, k + 1)
        IN [i |-> j + 1, tokens |-> Append(toks, Slice(q, k + 1, j))]
    ELSE IF At(q, k) \in {"(", ")"} THEN
        [i |-> k + 1, tokens |-> Append(toks, <<At(q, k)>>)]
    ELSE
        LET j == ScanWord(q, k)
        IN [i |-> j,
            tokens |-> IF j > k THEN Append(toks, Slice(q, k, j)) ELSE toks]

\* one iteration of the outer loop, entered with k < len(query): the new
\* value of the loop variable and of `tokens`
TokenizeStep(q, k, toks) ==
    IF IsSpace(At(q, k)) THEN [i |-> k + 1, tokens |-> toks]
    ELSE IF At(q, k) = QUOTE THEN
        LET j == ScanQuoted(q, k + 1)
        IN [i |-> j + 1,
            tokens |-> Append(toks, IF j < Len(q) THEN Slice(q, k, j + 1)
                                                  ELSE Slice(q, k, j))]
    ELSE IF At(q, k) \in {"(", ")"} THEN
        [i |-> k + 1, tokens |-> Append(toks, <<At(q, k)>>)]
    ELSE
        LET j == ScanWord(q, k)
        IN [i |-> j,
            tokens |-> IF j > k THEN Append(toks, Slice(q, k, j)) ELSE toks]

\* the outer loop: while i < len(query)
RECURSIVE TokenizeFrom(_, _, _)
TokenizeFrom(q, k, toks) ==
    IF ~(k < Len(q)) THEN [i |-> k, tokens |-> toks]
    ELSE LET n == TokenizeStep(q, k, toks)
         IN TokenizeFrom(q, n.i, n.tokens)

Tokenize(q) == TokenizeFrom(q, 0, <<>>).tokens

(***************************************************************************)
(* QueryExpr: the five dataclasses, and Python's None                      *)
(***************************************************************************)
None == [type |-> "None"]
TextSearch(v) == [type |-> "TextSearch", value |-> v]
LabelFilter(v) == [type |-> "LabelFilter", value |-> v]
NotExpr(e) == [type |-> "NotExpr", expr |-> e]
AndExpr(l, r) == [type |-> "AndExpr", left |-> l, right |-> r]
OrExpr(l, r) == [type |-> "OrExpr", left |-> l, right |-> r]

KwOR == <<"O", "R">>
KwLabel == <<"l", "a", "b", "e", "l", ":">>
LabelPrefixLen == 6

\* _parse_atom_from_token testing `token.startswith("label:")`, the case kept
ParseAtomFromTokenCaseSensitive(token) ==
    IF StartsWith(token, <<QUOTE>>) THEN TextSearch(StripQuotes(token))
    ELSE IF StartsWith(token, KwLabel)
         THEN LabelFilter(Slice(token, LabelPrefixLen, Len(token)))
    ELSE TextSearch(token)

\* _parse_atom_from_token with the label test before the quote test
ParseAtomFromTokenLabelFirst(token) ==
    IF StartsWith(Lower(StripQuotes(token)), KwLabel)
    THEN LabelFilter(Slice(StripQuotes(token), LabelPrefixLen,
                           Len(StripQuotes(token))))
    ELSE IF StartsWith(token, <<QUOTE>>) THEN TextSearch(StripQuotes(token))
    ELSE TextSearch(token)

\* _parse_atom_from_token without `token.strip('"')`
ParseAtomFromTokenKeepQuotes(token) ==
    IF StartsWith(token, <<QUOTE>>) THEN TextSearch(token)
    ELSE IF StartsWith(Lower(token), KwLabel)
         THEN LabelFilter(Slice(token, LabelPrefixLen, Len(token)))
    ELSE TextSearch(token)

\* QueryParser._parse_atom_from_token
ParseAtomFromToken(token) ==
    IF StartsWith(token, <<QUOTE>>) THEN TextSearch(StripQuotes(token))
    ELSE IF StartsWith(Lower(token), KwLabel)
         THEN LabelFilter(Slice(token, LabelPrefixLen, Len(token)))
    ELSE TextSearch(token)

(***************************************************************************)
(* The parser as a machine.  A configuration c holds the parser object's   *)
(* fields (tokens, token_pos), the call stack of the _parse_* methods and  *)
(* the value the last finished call returned.  A frame holds the method,   *)
(* the point it is at, its local `left`, and mark: token_pos when the call *)
(* or its current loop iteration began.  mark and c.steps, the number of   *)
(* steps taken, are history fields: no step reads them.                    *)
(*                                                                         *)
(* The methods call each other recursively, one Python frame a call.  The  *)
(* interpreter raises RecursionError when a call would pass its recursion  *)
(* limit (sys.getrecursionlimit(), 1000 unless changed; the repository     *)
(* does not change it).  The stack counts the _parse_* frames alone, fewer *)
(* than the frames in use, so the interpreter raises no later than here.   *)
(* The methods catch nothing: the exception ends the call of parse_query.  *)
(***************************************************************************)
RecursionLimit == 1000
RecursionError == [type |-> "RecursionError"]

Frame(fn, pos) == [fn |-> fn, at |-> "entry", left |-> None, mark |-> pos]

Top(c) == c.stack[Len(c.stack)]

\* QueryParser._current: the token, when there is one
HasCurrent(c) == c.token_pos < Len(c.tokens)
Current(c) == c.tokens[c.token_pos + 1]

\* `self._current()` used as a condition: not None and not the empty string
CurrentTruthy(c) == HasCurrent(c) /\ Current(c) # <<>>

\* QueryParser._advance
Advance(c) == [c EXCEPT !.token_pos = @ + 1]

\* call fn from the top frame, which resumes at `at`
Call(c, at, fn) ==
    IF Len(c.stack) >= RecursionLimit
    THEN [c EXCEPT !.stack = <<>>, !.ret = RecursionError]
    ELSE [c EXCEPT !.stack = Append([@ EXCEPT ![Len(c.stack)].at = at],
                                    Frame(fn, c.token_pos))]

\* return v from the top frame
Return(c, v) ==
    [c EXCEPT !.stack = SubSeq(@, 1, Len(@) - 1), !.ret = v]

\* _parse_or parsing a single unary operand after OR: OR binding as tight
\* as adjacency
ParseOrStepTight(c) ==
    LET f == Top(c) IN
    CASE f.at = "entry" -> Call(c, "left", "_parse_and")
      [] f.at = "left" ->
            IF c.ret = None THEN Return(c, None)
            ELSE [c EXCEPT !.stack[Len(c.stack)].left = c.ret,
                           !.stack[Len(c.stack)].at = "while"]
      [] f.at = "while" ->
            IF CurrentTruthy(c) /\ Upper(Current(c)) = KwOR
            THEN LET d == Advance(c)
                 IN Call([d EXCEPT !.stack[Len(c.stack)].mark = c.token_pos],
                         "right", "_parse_unary")
            ELSE IF CurrentTruthy(c) /\ Current(c) # <<")">>
            THEN Call([c EXCEPT !.stack[Len(c.stack)].mark = c.token_pos],
                      "and", "_parse_unary")
            ELSE Return(c, f.left)
      [] f.at = "right" ->
            IF c.ret = None THEN Return(c, f.left)
            ELSE [c EXCEPT !.stack[Len(c.stack)].left = OrExpr(f.left, c.ret),
                           !.stack[Len(c.stack)].at = "while"]
      [] f.at = "and" ->
            IF c.ret = None THEN Return(c, f.left)
            ELSE [c EXCEPT !.stack[Len(c.stack)].left = AndExpr(f.left, c.ret),
                           !.stack[Len(c.stack)].at = "while"]

\* _parse_or without `if right is None: break`
ParseOrStepNoBreak(c) ==
    LET f == Top(c) IN
    CASE f.at = "entry" -> Call(c, "left", "_parse_and")
      [] f.at = "left" ->
            IF c.ret = None THEN Return(c, None)
            ELSE [c EXCEPT !.stack[Len(c.stack)].left = c.ret,
                           !.stack[Len(c.stack)].at = "while"]
      [] f.at = "while" ->
            IF CurrentTruthy(c) /\ Upper(Current(c)) = KwOR
            THEN LET d == Advance(c)
                 IN Call([d EXCEPT !.stack[Len(c.stack)].mark = c.token_pos],
                         "right", "_parse_and")
            ELSE Return(c, f.left)
      [] f.at = "right" ->
            [c EXCEPT !.stack[Len(c.stack)].left = OrExpr(f.left, c.ret),
                      !.stack[Len(c.stack)].at = "while"]

\* QueryParser._parse_or
ParseOrStep(c) ==
    LET f == Top(c) IN
    CASE f.at = "entry" -> Call(c, "left", "_parse_and")
      [] f.at = "left" ->
            IF c.ret = None THEN Return(c, None)
            ELSE [c EXCEPT !.stack[Len(c.stack)].left = c.ret,
                           !.stack[Len(c.stack)].at = "while"]
      [] f.at = "while" ->
            IF CurrentTruthy(c) /\ Upper(Current(c)) = KwOR
            THEN LET d == Advance(c)
                 IN Call([d EXCEPT !.stack[Len(c.stack)].mark = c.token_pos],
                         "right", "_parse_and")
            ELSE Return(c, f.left)
      [] f.at = "right" ->
            IF c.ret = None THEN Return(c, f.left)
            ELSE [c EXCEPT !.stack[Len(c.stack)].left = OrExpr(f.left, c.ret),
                           !.stack[Len(c.stack)].at = "while"]

\* _parse_and folding to the right: AndExpr(right, left)
ParseAndStepSwapped(c) ==
    LET f == Top(c) IN
    CASE f.at = "entry" -> Call(c, "left", "_parse_unary")
      [] f.at = "left" ->
            IF c.ret = None THEN Return(c, None)
            ELSE [c EXCEPT !.stack[Len(c.stack)].left = c.ret,
                           !.stack[Len(c.stack)].at = "while"]
      [] f.at = "while" ->
            IF /\ CurrentTruthy(c)
               /\ Upper(Current(c)) # KwOR
               /\ Current(c) # <<")">>
            THEN Call([c EXCEPT !.stack[Len(c.stack)].mark = c.token_pos],
                      "right", "_parse_unary")
            ELSE Return(c, f.left)
      [] f.at = "right" ->
            IF c.ret = None THEN Return(c, f.left)
            ELSE [c EXCEPT !.stack[Len(c.stack)].left = AndExpr(c.ret, f.left),
                           !.stack[Len(c.stack)].at = "while"]

\* QueryParser._parse_and
ParseAndStep(c) ==
    LET f == Top(c) IN
    CASE f.at = "entry" -> Call(c, "left", "_parse_unary")
      [] f.at = "left" ->
            IF c.ret = None THEN Return(c, None)
            ELSE [c EXCEPT !.stack[Len(c.stack)].left = c.ret,
                           !.stack[Len(c.stack)].at = "while"]
      [] f.at = "while" ->
            IF /\ CurrentTruthy(c)
               /\ Upper(Current(c)) # KwOR
               /\ Current(c) # <<")">>
            THEN Call([c EXCEPT !.stack[Len(c.stack)].mark = c.token_pos],
                      "right", "_parse_unary")
            ELSE Return(c, f.left)
      [] f.at = "right" ->
            IF c.ret = None THEN Return(c, f.left)
            ELSE [c EXCEPT !.stack[Len(c.stack)].left = AndExpr(f.left, c.ret),
                           !.stack[Len(c.stack)].at = "while"]

\* _parse_unary without the `len(token) > 1` test
ParseUnaryStepAnyDash(c) ==
    LET f == Top(c) IN
    CASE f.at = "entry" ->
            IF ~HasCurrent(c) THEN Return(c, None)
            ELSE LET token == Current(c) IN
                 IF StartsWith(token, <<"-">>)
                 THEN LET inner == ParseAtomFromToken(Slice(token, 1, Len(token)))
                      IN Return(Advance(c),
                                IF inner # None THEN NotExpr(inner) ELSE None)
                 ELSE Call(c, "atom", "_parse_atom")
      [] f.at = "atom" -> Return(c, c.ret)

\* QueryParser._parse_unary
ParseUnaryStep(c) ==
    LET f == Top(c) IN
    CASE f.at = "entry" ->
            IF ~HasCurrent(c) THEN Return(c, None)
            ELSE LET token == Current(c) IN
                 IF StartsWith(token, <<"-">>) /\ Len(token) > 1
                 THEN LET inner == ParseAtomFromToken(Slice(token, 1, Len(token)))
                      IN Return(Advance(c),
                                IF inner # None THEN NotExpr(inner) ELSE None)
                 ELSE Call(c, "atom", "_parse_atom")
      [] f.at = "atom" -> Return(c, c.ret)

\* _parse_atom leaving the `)` of a group unconsumed
ParseAtomStepKeepParen(c) ==
    LET f == Top(c) IN
    CASE f.at = "entry" ->
            IF ~HasCurrent(c) THEN Return(c, None)
            ELSE LET token == Current(c) IN
                 IF token = <<"(">>
                 THEN Call(Advance(c), "group", "_parse_or")
                 ELSE Return(Advance(c), ParseAtomFromToken(token))
      [] f.at = "group" -> Return(c, c.ret)

\* QueryParser._parse_atom
ParseAtomStep(c) ==
    LET f == Top(c) IN
    CASE f.at = "entry" ->
            IF ~HasCurrent(c) THEN Return(c, None)
            ELSE LET token == Current(c) IN
                 IF token = <<"(">>
                 THEN Call(Advance(c), "group", "_parse_or")
                 ELSE Return(Advance(c), ParseAtomFromToken(token))
      [] f.at = "group" ->
            IF HasCurrent(c) /\ Current(c) = <<")">>
            THEN Return(Advance(c), c.ret)
            ELSE Return(c, c.ret)

\* one step of the method on top of the stack
Step(c) ==
    CASE Top(c).fn = "_parse_or" -> ParseOrStep(c)
      [] Top(c).fn = "_parse_and" -> ParseAndStep(c)
      [] Top(c).fn = "_parse_unary" -> ParseUnaryStep(c)
      [] Top(c).fn = "_parse_atom" -> ParseAtomStep(c)

\* a step, counted
Counted(c) == [c EXCEPT !.steps = @ + 1]

\* the call runs until it returns
RECURSIVE Run(_)
Run(c) == IF c.stack = <<>> THEN c ELSE Run(Counted(Step(c)))

\* QueryParser.parse on the tokens of __init__, up to the call of _parse_or
\* (no frame when `not self.tokens`)
Parser(toks) ==
    [tokens |-> toks, token_pos |-> 0, ret |-> None, steps |-> 0,
     stack |-> IF toks = <<>> THEN <<>> ELSE <<Frame("_parse_or", 0)>>]

\* QueryParser(q).parse
NewParser(q) == Parser(Tokenize(q))

\* the parser a call of parse_query starts with: none is built when
\* `not query or not query.strip()`
Entered(q) ==
    IF q = <<>> \/ StripSpace(q) = <<>>
    THEN [tokens |-> <<>>, token_pos |-> 0, ret |-> None, steps |-> 0,
          stack |-> <<>>]
    ELSE NewParser(StripSpace(q))

\* parse_query: what it returns (RecursionError when it raises it)
ParseQuery(q) == Run(Entered(q)).ret

(***************************************************************************)
(* AppSheetProvider._query_to_selector                                     *)
(***************************************************************************)
\* the literal parts of the f-strings
TextOpen ==
    <<"C", "O", "N", "T", "A", "I", "N", "S", "(", "C", "O", "N", "C", "A",
      "T", "E", "N", "A", "T", "E", "(", "[", "T", "i", "t", "l", "e", "]",
      ",", " ", QUOTE, " ", QUOTE, ",", " ", "[", "C", "o", "n", "t", "e",
      "n", "t", "]", ")", ",", " ", QUOTE>>
LabelOpen ==
    <<"C", "O", "N", "T", "A", "I", "N", "S", "(", "[", "L", "a", "b", "e",
      "l", "s", "]", ",", " ", QUOTE>>
ValueClose == <<QUOTE, ")">>
NotOpen == <<"N", "O", "T", "(">>
AndOpen == <<"A", "N", "D", "(">>
OrOpen == <<"O", "R", "(">>
ArgSep == <<",", " ">>
CallClose == <<")">>

\* value.replace('"', '\\"')
RECURSIVE EscapeQuotes(_)
EscapeQuotes(v) ==
    IF v = <<>> THEN <<>>
    ELSE (IF Head(v) = QUOTE THEN <<"\\", QUOTE>> ELSE <<Head(v)>>)
         \o EscapeQuotes(Tail(v))

\* what a call gives: the str it returns, or the ValueError it raises
Returned(text) == [raised |-> FALSE, text |-> text]
ValueError == [raised |-> TRUE, text |-> <<>>]

\* _query_to_selector giving an unknown node the empty predicate
RECURSIVE QueryToSelectorLenient(_)
QueryToSelectorLenient(expr) ==
    CASE expr.type = "TextSearch" ->
            Returned(TextOpen \o EscapeQuotes(expr.value) \o ValueClose)
      [] expr.type = "LabelFilter" ->
            Returned(LabelOpen \o EscapeQuotes(expr.value) \o ValueClose)
      [] expr.type = "NotExpr" ->
            LET inner == QueryToSelectorLenient(expr.expr)
            IN IF inner.raised THEN ValueError
               ELSE Returned(NotOpen \o inner.text \o CallClose)
      [] expr.type = "AndExpr" ->
            LET left == QueryToSelectorLenient(expr.left)
                right == QueryToSelectorLenient(expr.right)
            IN IF left.raised \/ right.raised THEN ValueError
               ELSE Returned(AndOpen \o left.text \o ArgSep \o right.text
                             \o CallClose)
      [] expr.type = "OrExpr" ->
            LET left == QueryToSelectorLenient(expr.left)
                right == QueryToSelectorLenient(expr.right)
            IN IF left.raised \/ right.raised THEN ValueError
               ELSE Returned(OrOpen \o left.text \o ArgSep \o right.text
                             \o CallClose)
      [] OTHER -> Returned(<<>>)

\* _query_to_selector emitting the right operand of AND and OR first
RECURSIVE QueryToSelectorSwapped(_)
QueryToSelectorSwapped(expr) ==
    CASE expr.type = "TextSearch" ->
            Returned(TextOpen \o EscapeQuotes(expr.value) \o ValueClose)
      [] expr.type = "LabelFilter" ->
            Returned(LabelOpen \o EscapeQuotes(expr.value) \o ValueClose)
      [] expr.type = "NotExpr" ->
            LET inner == QueryToSelectorSwapped(expr.expr)
            IN IF inner.raised THEN ValueError
               ELSE Returned(NotOpen \o inner.text \o CallClose)
      [] expr.type = "AndExpr" ->
            LET left == QueryToSelectorSwapped(expr.left)
                right == QueryToSelectorSwapped(expr.right)
            IN IF left.raised \/ right.raised THEN ValueError
               ELSE Returned(AndOpen \o right.text \o ArgSep \o left.text
                             \o CallClose)
      [] expr.type = "OrExpr" ->
            LET left == QueryToSelectorSwapped(expr.left)
                right == QueryToSelectorSwapped(expr.right)
            IN IF left.raised \/ right.raised THEN ValueError
               ELSE Returned(OrOpen \o right.text \o ArgSep \o left.text
                             \o CallClose)
      [] OTHER -> ValueError

RECURSIVE QueryToSelector(_)
QueryToSelector(expr) ==
    CASE expr.type = "TextSearch" ->
            Returned(TextOpen \o EscapeQuotes(expr.value) \o ValueClose)
      [] expr.type = "LabelFilter" ->
            Returned(LabelOpen \o EscapeQuotes(expr.value) \o ValueClose)
      [] expr.type = "NotExpr" ->
            LET inner == QueryToSelector(expr.expr)
            IN IF inner.raised THEN ValueError
               ELSE Returned(NotOpen \o inner.text \o CallClose)
      [] expr.type = "AndExpr" ->
            LET left == QueryToSelector(expr.left)
                right == QueryToSelector(expr.right)
            IN IF left.raised \/ right.raised THEN ValueError
               ELSE Returned(AndOpen \o left.text \o ArgSep \o right.text
                             \o CallClose)
      [] expr.type = "OrExpr" ->
            LET left == QueryToSelector(expr.left)
                right == QueryToSelector(expr.right)
            IN IF left.raised \/ right.raised THEN ValueError
               ELSE Returned(OrOpen \o left.text \o ArgSep \o right.text
                             \o CallClose)
      [] OTHER -> ValueError

(***************************************************************************)
(* AppSheetProvider.list: the selector.  `query` and `sort` are used as    *)
(* conditions, so None and the empty str act alike: <<>> stands for both.  *)
(* selector is None (nothing is sent) or a str.                            *)
(***************************************************************************)
\* self.table_name, by default
Table == <<"N", "o", "t", "e">>

NoSelector == [sent |-> FALSE, text |-> <<>>]
Selector(text) == [sent |-> TRUE, text |-> text]

\* str.capitalize(): the first character upper case, the others lower case
Capitalize(s) ==
    [k \in 1..Len(s) |-> IF k = 1 THEN UpperChar(s[k]) ELSE LowerChar(s[k])]

\* sort.startswith("-")
Desc(s) == StartsWith(s, <<"-">>)

\* sort.lstrip("-").capitalize()
Field(s) == Capitalize(LStripSet(s, {"-"}))

\* the descending flag as FALSE exactly when the sort starts with '-'
OrderByFlagSwapped(base, s) ==
    <<"O", "r", "d", "e", "r", "B", "y", "(">> \o base \o <<",", " ", "[">>
    \o Field(s) \o <<"]", ",", " ">>
    \o (IF Desc(s) THEN <<"F", "A", "L", "S", "E">> ELSE <<"T", "R", "U", "E">>)
    \o <<")">>

\* f"OrderBy({base}, [{field}], {'TRUE' if desc else 'FALSE'})"
OrderBy(base, s) ==
    <<"O", "r", "d", "e", "r", "B", "y", "(">> \o base \o <<",", " ", "[">>
    \o Field(s) \o <<"]", ",", " ">>
    \o (IF Desc(s) THEN <<"T", "R", "U", "E">> ELSE <<"F", "A", "L", "S", "E">>)
    \o <<")">>

\* f"Filter({self.table_name}, {condition})"
Filter(cond) ==
    <<"F", "i", "l", "t", "e", "r", "(">> \o Table \o <<",", " ">> \o cond
    \o <<")">>

\* the selector when the query parsed to a tree: `if ast:`
Filtered(cond, s) ==
    Selector(IF s # <<>> THEN OrderBy(Filter(cond), s) ELSE Filter(cond))

\* the selector when no query is given: `elif sort:`
Unfiltered(s) == IF s # <<>> THEN Selector(OrderBy(Table, s)) ELSE NoSelector

(***************************************************************************)
(* Inputs                                                                  *)
(***************************************************************************)
MaxPieces == 4
MaxTerms == 6
MaxNodes == 5
MaxGroupTerms == 4

\* query strings: up to MaxPieces pieces written one after the other
Pieces == {<<" ">>, <<"\t">>, <<QUOTE>>, <<"(">>, <<")">>, <<"-">>, <<"a">>,
           <<"\\">>, KwOR, KwLabel}

RECURSIVE Glued(_)
Glued(n) ==
    IF n = 0 THEN {<<>>}
    ELSE LET S == Glued(n - 1) IN S \cup {s \o p : s \in S, p \in Pieces}

Queries == Glued(MaxPieces)

\* query strings: up to MaxTerms terms separated by one space
Terms == {<<"a">>, <<"-", "b">>, <<"L", "a", "B", "e", "l", ":", "X", "y">>,
          KwOR}

RECURSIVE Joined(_)
Joined(n) ==
    IF n = 1 THEN Terms
    ELSE LET S == Joined(n - 1)
         IN S \cup {s \o <<" ">> \o t : s \in S, t \in Terms}

TermQueries == Joined(MaxTerms)

\* query strings with one group: (Q), (Q) t, t (Q) and the unclosed (Q, for
\* every Q of up to MaxGroupTerms terms
GroupOperands == {<<"a">>, <<"-", "b">>}
GroupQueries ==
    UNION {{<<"(">> \o q \o <<")">>, <<"(">> \o q}
           \cup {<<"(">> \o q \o <<")", " ">> \o t : t \in GroupOperands}
           \cup {t \o <<" ", "(">> \o q \o <<")">> : t \in GroupOperands}
           : q \in Joined(MaxGroupTerms)}

\* query strings that spell the keywords in every letter case: a label term
\* alone, and two operands around an OR
RECURSIVE CaseVariants(_)
CaseVariants(s) ==
    IF s = <<>> THEN {<<>>}
    ELSE {<<c>> \o t : c \in {LowerChar(Head(s)), UpperChar(Head(s))},
                       t \in CaseVariants(Tail(s))}

Payloads == {<<>>, <<"X", "y">>, <<"o", "R">>}
LabelTerms == {l \o v : l \in CaseVariants(KwLabel), v \in Payloads}
Operands == {<<"a">>, <<"-", "b">>, <<"-", "L", "A", "b", "e", "l", ":", "Z">>}

CaseQueries ==
    LabelTerms
    \cup {l \o <<" ">> \o k \o <<" ">> \o r :
            l \in Operands \cup LabelTerms, k \in CaseVariants(KwOR),
            r \in Operands}

\* query strings of n opening parentheses and a word, n small or such that
\* the four frames a nesting level takes pass the recursion limit
Nested(n) == [k \in 1..(n + 1) |-> IF k <= n THEN "(" ELSE "a"]

NestedQueries == {Nested(n) : n \in {1, 2, RecursionLimit \div 4}}

\* trees of exactly n nodes, for a direct call of _query_to_selector
Values == {<<"w">>, <<"a", QUOTE, "b">>}
Leaves == {TextSearch(v) : v \in Values} \cup {LabelFilter(v) : v \in Values}

RECURSIVE TreesOfSize(_)
TreesOfSize(n) ==
    IF n = 1 THEN Leaves
    ELSE {NotExpr(e) : e \in TreesOfSize(n - 1)}
         \cup UNION {{AndExpr(l, r) : l \in TreesOfSize(k),
                                      r \in TreesOfSize(n - 1 - k)}
                     : k \in 1..(n - 2)}
         \cup UNION {{OrExpr(l, r) : l \in TreesOfSize(k),
                                     r \in TreesOfSize(n - 1 - k)}
                     : k \in 1..(n - 2)}

Trees == UNION {TreesOfSize(n) : n \in 1..MaxNodes}

(***************************************************************************)
(* State machine                                                           *)
(***************************************************************************)
\* leaf values over a letter, the double quote and the backslash, the empty
\* value included
MaxValueLen == 3
ValueChars == {"a", QUOTE, "\\"}
LeafValues == UNION {[1..n -> ValueChars] : n \in 0..MaxValueLen}
ValueLeaves ==
    {TextSearch(v) : v \in LeafValues} \cup {LabelFilter(v) : v \in LeafValues}

\* the queries and the sort strings of list: queries glued from pieces, the
\* empty one included; sort strings over the dash and letters of both cases
MaxListPieces == 2
ListQueries == Glued(MaxListPieces)
MaxSortLen == 3
SortChars == {"-", "m", "O"}
Sorts == UNION {[1..n -> SortChars] : n \in 0..MaxSortLen}

\* list has not built a selector
NotListed == selector = NoSelector

\* values that are not nodes: None and an object of another type; and the
\* trees that may hold them where a node is expected
MaxAnyNodes == 4
Other == [type |-> "str"]
AnyLeaves == {TextSearch(<<"w">>), LabelFilter(<<"w">>), None, Other}

RECURSIVE AnyTreesOfSize(_)
AnyTreesOfSize(n) ==
    IF n = 1 THEN AnyLeaves
    ELSE {NotExpr(e) : e \in AnyTreesOfSize(n - 1)}
         \cup UNION {{AndExpr(l, r) : l \in AnyTreesOfSize(k),
                                      r \in AnyTreesOfSize(n - 1 - k)}
                     : k \in 1..(n - 2)}
         \cup UNION {{OrExpr(l, r) : l \in AnyTreesOfSize(k),
                                     r \in AnyTreesOfSize(n - 1 - k)}
                     : k \in 1..(n - 2)}

AnyTrees == UNION {AnyTreesOfSize(n) : n \in 1..MaxAnyNodes}

NotCalled == [raised |-> FALSE, text |-> <<>>]

Cfg == [tokens |-> tokens, token_pos |-> token_pos, stack |-> stack,
        ret |-> ret, steps |-> steps]

SetCfg(c) ==
    /\ tokens' = c.tokens
    /\ token_pos' = c.token_pos
    /\ stack' = c.stack
    /\ ret' = c.ret
    /\ steps' = c.steps

NoParser ==
    /\ scan = 0
    /\ tokens = <<>>
    /\ token_pos = 0
    /\ stack = <<>>
    /\ ret = None
    /\ steps = 0

Init ==
    /\ query \in Queries
    /\ pc = "start"
    /\ NoParser
    /\ ast = None
    /\ condition = NotCalled
    /\ sort = <<>>
    /\ NotListed

InitTerms ==
    /\ query \in TermQueries
    /\ pc = "start"
    /\ NoParser
    /\ ast = None
    /\ condition = NotCalled
    /\ sort = <<>>
    /\ NotListed

InitGroups ==
    /\ query \in GroupQueries
    /\ pc = "start"
    /\ NoParser
    /\ ast = None
    /\ condition = NotCalled
    /\ sort = <<>>
    /\ NotListed

InitNested ==
    /\ query \in NestedQueries
    /\ pc = "start"
    /\ NoParser
    /\ ast = None
    /\ condition = NotCalled
    /\ sort = <<>>
    /\ NotListed

InitCase ==
    /\ query \in CaseQueries
    /\ pc = "start"
    /\ NoParser
    /\ ast = None
    /\ condition = NotCalled
    /\ sort = <<>>
    /\ NotListed

InitCompile ==
    /\ query = <<>>
    /\ pc = "compile"
    /\ NoParser
    /\ ast \in Trees
    /\ condition = NotCalled
    /\ sort = <<>>
    /\ NotListed

InitValues ==
    /\ query = <<>>
    /\ pc = "compile"
    /\ NoParser
    /\ ast \in ValueLeaves
    /\ condition = NotCalled
    /\ sort = <<>>
    /\ NotListed

InitList ==
    /\ query \in ListQueries
    /\ sort \in Sorts
    /\ pc = "start"
    /\ NoParser
    /\ ast = None
    /\ condition = NotCalled
    /\ selector = NoSelector

InitAny ==
    /\ query = <<>>
    /\ sort = <<>>
    /\ pc = "compile"
    /\ NoParser
    /\ ast \in AnyTrees
    /\ condition = NotCalled
    /\ NotListed

InitTokenize ==
    /\ query \in Queries
    /\ sort = <<>>
    /\ pc = "tokenize"
    /\ NoParser
    /\ ast = None
    /\ condition = NotCalled
    /\ NotListed

\* QueryParser(query): __init__ tokenizes the string it is given
TokenizeCall ==
    /\ pc = "tokenize"
    /\ LET n == TokenizeFrom(query, 0, <<>>)
       IN scan' = n.i /\ tokens' = n.tokens
    /\ pc' = "tokenized"
    /\ UNCHANGED <<query, sort, token_pos, stack, ret, steps, ast, condition,
                   selector>>

NextTokenize == TokenizeCall

\* parse_query(query), the whole call
ParseQueryCall ==
    /\ pc = "start"
    /\ LET c == Run(Entered(query))
       IN /\ SetCfg(c)
          /\ scan' = IF query = <<>> \/ StripSpace(query) = <<>> THEN 0
                  ELSE TokenizeFrom(StripSpace(query), 0, <<>>).i
          /\ IF c.ret = RecursionError
             THEN pc' = "raised" /\ ast' = ast
             ELSE pc' = "parsed" /\ ast' = c.ret
    /\ UNCHANGED <<query, sort, condition, selector>>

\* parse_query(query) up to the loop of _tokenize: it returns None when
\* `not query or not query.strip()`
Start ==
    /\ pc = "start"
    /\ pc' = IF query = <<>> \/ StripSpace(query) = <<>> THEN "parsed"
             ELSE "tokenizing"
    /\ UNCHANGED <<query, sort, scan, tokens, token_pos,
                   stack, ret, steps, ast, condition, selector>>

\* one iteration of the loop of _tokenize
Scan ==
    /\ pc = "tokenizing"
    /\ scan < Len(StripSpace(query))
    /\ LET n == TokenizeStep(StripSpace(query), scan, tokens)
       IN scan' = n.i /\ tokens' = n.tokens
    /\ UNCHANGED <<query, sort, pc, token_pos, stack,
                   ret, steps, ast, condition, selector>>

\* the loop of _tokenize ends; parse() calls _parse_or
Parse ==
    /\ pc = "tokenizing"
    /\ ~(scan < Len(StripSpace(query)))
    /\ SetCfg(Parser(tokens))
    /\ pc' = "parsing"
    /\ UNCHANGED <<query, sort, scan, ast, condition, selector>>

Running(fn) == pc = "parsing" /\ stack # <<>> /\ Top(Cfg).fn = fn

ParseOr ==
    /\ Running("_parse_or")
    /\ SetCfg(Counted(ParseOrStep(Cfg)))
    /\ UNCHANGED <<query, sort, pc, scan, ast, condition, selector>>

ParseAnd ==
    /\ Running("_parse_and")
    /\ SetCfg(Counted(ParseAndStep(Cfg)))
    /\ UNCHANGED <<query, sort, pc, scan, ast, condition, selector>>

ParseUnary ==
    /\ Running("_parse_unary")
    /\ SetCfg(Counted(ParseUnaryStep(Cfg)))
    /\ UNCHANGED <<query, sort, pc, scan, ast, condition, selector>>

ParseAtom ==
    /\ Running("_parse_atom")
    /\ SetCfg(Counted(ParseAtomStep(Cfg)))
    /\ UNCHANGED <<query, sort, pc, scan, ast, condition, selector>>

\* parse_query returns what parse returned, or the exception leaves it
Finish ==
    /\ pc = "parsing"
    /\ stack = <<>>
    /\ IF ret = RecursionError
       THEN pc' = "raised" /\ ast' = ast
       ELSE pc' = "parsed" /\ ast' = ret
    /\ UNCHANGED <<query, sort, scan, tokens, token_pos,
                   stack, ret, steps, condition, selector>>

\* list: `if ast:`, the condition and the selector of the filter
Compile ==
    /\ pc = "parsed"
    /\ ast # None
    /\ condition' = QueryToSelector(ast)
    /\ selector' = IF condition'.raised THEN selector
                   ELSE Filtered(condition'.text, sort)
    /\ pc' = "compiled"
    /\ UNCHANGED <<query, sort, scan, tokens, token_pos, stack, ret, steps, ast>>

\* _query_to_selector(ast) called on a tree
QueryToSelectorCall ==
    /\ pc = "compile"
    /\ condition' = QueryToSelector(ast)
    /\ pc' = "compiled"
    /\ UNCHANGED <<query, sort, scan, tokens, token_pos,
                   stack, ret, steps, ast, selector>>

\* list(query=query, sort=sort), up to the selector it sends
List ==
    /\ pc = "start"
    /\ IF query # <<>>
       THEN LET c == Run(Entered(query))
            IN /\ SetCfg(c)
               /\ scan' = IF StripSpace(query) = <<>> THEN 0
                          ELSE TokenizeFrom(StripSpace(query), 0, <<>>).i
               /\ IF c.ret = RecursionError
                  THEN /\ pc' = "raised"
                       /\ UNCHANGED <<ast, condition, selector>>
                  ELSE /\ pc' = "listed"
                       /\ ast' = c.ret
                       /\ IF c.ret # None
                          THEN /\ condition' = QueryToSelector(c.ret)
                               /\ selector' = IF condition'.raised THEN selector
                                              ELSE Filtered(condition'.text, sort)
                          ELSE UNCHANGED <<condition, selector>>
       ELSE /\ pc' = "listed"
            /\ selector' = Unfiltered(sort)
            /\ UNCHANGED <<scan, tokens, token_pos, stack, ret, steps, ast,
                           condition>>
    /\ UNCHANGED <<query, sort>>

NextList == List

Next == ParseQueryCall \/ Compile

NextSteps ==
    Start \/ Scan \/ Parse \/ ParseOr \/ ParseAnd \/ ParseUnary \/ ParseAtom \/ Finish \/ Compile

NextCompile == QueryToSelectorCall

Spec == Init /\ [][Next]_vars

SpecTerms == InitTerms /\ [][Next]_vars

SpecGroups == InitGroups /\ [][Next]_vars

SpecCase == InitCase /\ [][Next]_vars

SpecSteps == Init /\ [][NextSteps]_vars

SpecNested == InitNested /\ [][NextSteps]_vars

SpecCompile == InitCompile /\ [][NextCompile]_vars

(***************************************************************************)
(* Claims                                                                  *)
(***************************************************************************)
Range(s) == {s[i] : i \in 1..Len(s)}

Parsed == pc \in {"parsed", "compiled"}

ExprTypes == {"TextSearch", "LabelFilter", "NotExpr", "AndExpr", "OrExpr"}

\* the token position stays within the tokens
PosInRange == token_pos <= Len(tokens)

\* when the operand of a loop iteration of _parse_or or _parse_and has
\* returned ("right"), when the _parse_atom that _parse_unary called has
\* ("atom") and when the group of a _parse_atom has ("group"), tokens have
\* been consumed since the iteration (the call) began
IterationsConsume ==
    \A i \in 1..Len(stack) :
        LET f == stack[i] IN
        /\ f.mark <= token_pos
        /\ (i = Len(stack) /\ f.at \in {"right", "atom", "group"})
              => f.mark < token_pos

\* the call returns within a number of steps linear in the number of tokens
StepsBounded == steps <= 10 * Len(tokens) + 3

\* until the call has returned a step can be taken: every frame is at a point
\* its method has a step for
FrameRunnable(f) ==
    CASE f.fn \in {"_parse_or", "_parse_and"} ->
            f.at \in {"entry", "left", "while", "right"}
      [] f.fn = "_parse_unary" -> f.at \in {"entry", "atom"}
      [] f.fn = "_parse_atom" -> f.at \in {"entry", "group"}
      [] OTHER -> FALSE

NeverStuck ==
    \/ Parsed
    \/ pc \in {"start", "tokenizing"}
    \/ pc = "parsing" /\ \A i \in 1..Len(stack) : FrameRunnable(stack[i])

\* C1: for every query string parse_query terminates and returns a tree or
\* None and never raises: the token position never exceeds the number of
\* tokens, every iteration of the OR loop and of the implicit-AND loop and
\* every atom parse consumes at least one token, and the call reaches its
\* return within a bounded number of steps.
C1_ParseTerminates ==
    /\ pc # "raised"
    /\ PosInRange
    /\ IterationsConsume
    /\ StepsBounded
    /\ NeverStuck
    /\ Parsed => (ast = None \/ ast.type \in ExprTypes)

\* C2: every query that is not empty after trimming parses to a tree, never
\* to None.
C2_NonEmptyGivesTree ==
    (Parsed /\ \E i \in 1..Len(query) : query[i] \notin {" ", "\t", "\n"})
        => ast # None

\* C9: parse_query returns None for the empty string and for every string
\* made only of whitespace characters.
C9_BlankGivesNone ==
    (Parsed /\ \A i \in 1..Len(query) : query[i] \in {" ", "\t", "\n"})
        => ast = None

\* C9 witness: a query of several whitespace characters, a tab among them,
\* has been parsed
C9_Witness ==
    /\ Parsed
    /\ Len(query) >= 2
    /\ "\t" \in Range(query)
    /\ Range(query) \subseteq {" ", "\t"}
    /\ ast = None

\* a word: no whitespace, quote or parenthesis
IsWord(w) ==
    w # <<>> /\ Range(w) \cap {" ", "\t", "\n", QUOTE, "(", ")"} = {}

\* the leaf a word stands for: a label filter when its first six characters
\* are `label:` in any letter case, a text search otherwise
IsLabelWord(w) ==
    /\ Len(w) >= 6
    /\ w[1] \in {"l", "L"} /\ w[2] \in {"a", "A"} /\ w[3] \in {"b", "B"}
    /\ w[4] \in {"e", "E"} /\ w[5] \in {"l", "L"} /\ w[6] = ":"
LeafOf(w) ==
    IF IsLabelWord(w) THEN LabelFilter(SubSeq(w, 7, Len(w))) ELSE TextSearch(w)

\* the expression of a term: a negation when the word is a dash and more
TermExpr(w) ==
    IF Len(w) > 1 /\ w[1] = "-" THEN NotExpr(LeafOf(Tail(w))) ELSE LeafOf(w)

\* C5: a word that begins with '-' and is longer than one character parses
\* to Not(e), e the leaf of the word with exactly one leading '-' removed; the
\* word '-' alone parses to TextSearch('-'); alone and after another term.
C5_Negation ==
    Parsed =>
        /\ (IsWord(query) /\ Len(query) > 1 /\ query[1] = "-")
              => ast = NotExpr(LeafOf(Tail(query)))
        /\ query = <<"-">> => ast = TextSearch(<<"-">>)
        /\ (Len(query) > 3 /\ SubSeq(query, 1, 3) = <<"a", " ", "-">>
              /\ IsWord(SubSeq(query, 3, Len(query))))
              => ast = AndExpr(TextSearch(<<"a">>),
                               NotExpr(LeafOf(SubSeq(query, 4, Len(query)))))

\* C5 witness: the word '--a' has been parsed to a single negation
C5_Witness ==
    /\ Parsed
    /\ query = <<"-", "-", "a">>
    /\ ast = NotExpr(TextSearch(<<"-", "a">>))

\* s without its trailing whitespace
RECURSIVE TrimRight(_)
TrimRight(s) ==
    IF s # <<>> /\ s[Len(s)] \in {" ", "\t", "\n"}
    THEN TrimRight(SubSeq(s, 1, Len(s) - 1)) ELSE s

\* the characters of the query after its first one
Rest == SubSeq(query, 2, Len(query))

\* the query is one phrase "s": Inner is s
IsOnePhrase ==
    /\ Len(query) >= 2
    /\ query[1] = QUOTE
    /\ query[Len(query)] = QUOTE
    /\ QUOTE \notin Range(SubSeq(query, 2, Len(query) - 1))
Inner == SubSeq(query, 2, Len(query) - 1)

\* the query is one unterminated phrase: a quote and no other
IsOpenPhrase == Len(query) >= 1 /\ query[1] = QUOTE /\ QUOTE \notin Range(Rest)

\* the query starts a phrase that a backslash and a quote end at position k
\* (1-based), with more after it
EndsAtEscapedQuote(k) ==
    /\ query[1] = QUOTE
    /\ k >= 3 /\ k < Len(query)
    /\ query[k - 1] = "\\" /\ query[k] = QUOTE
    /\ QUOTE \notin Range(SubSeq(query, 2, k - 1))

\* C7 as claimed: one quoted phrase "s" parses to TextSearch(s), and an
\* unterminated phrase takes the remainder of the input as its value.
C7_PhraseVerbatim ==
    Parsed =>
        /\ IsOnePhrase => ast = TextSearch(Inner)
        /\ IsOpenPhrase => ast = TextSearch(Rest)

\* C7 amended: one quoted phrase "s" parses to TextSearch(s) with whitespace,
\* parentheses, '-', OR and label: kept verbatim; an unterminated phrase takes
\* the remainder of the input without its trailing whitespace (parse_query
\* strips the query first); the quote after a backslash ends the phrase.
C7_Phrase ==
    Parsed =>
        /\ IsOnePhrase => ast = TextSearch(Inner)
        /\ IsOpenPhrase => ast = TextSearch(TrimRight(Rest))
        /\ \A k \in 3..Len(query) :
              EndsAtEscapedQuote(k) => tokens[1] = SubSeq(query, 1, k)

\* C7 witness: a phrase that holds a label: prefix, or starts with '-', '(' or
\* a blank, has been parsed to the text search of exactly that phrase
C7_Witness ==
    /\ Parsed
    /\ IsOnePhrase
    /\ Len(Inner) >= 2
    /\ \/ Inner[1] \in {"-", "(", " "}
       \/ IsLabelWord(Inner)
    /\ ast = TextSearch(Inner)

\* the whitespace-separated words of s, in order
RECURSIVE WordsFrom(_, _, _)
WordsFrom(s, word, done) ==
    IF s = <<>> THEN (IF word = <<>> THEN done ELSE Append(done, word))
    ELSE IF Head(s) \in {" ", "\t", "\n"}
         THEN WordsFrom(Tail(s), <<>>,
                        IF word = <<>> THEN done ELSE Append(done, word))
    ELSE WordsFrom(Tail(s), Append(word, Head(s)), done)
Words(s) == WordsFrom(s, <<>>, <<>>)

\* the keyword OR in any letter case
IsOrWord(w) == Len(w) = 2 /\ w[1] \in {"o", "O"} /\ w[2] \in {"r", "R"}

\* a term: a word that is not the keyword
IsTerm(w) == IsWord(w) /\ ~IsOrWord(w)

\* the left-associative folds of a non-empty sequence of expressions
RECURSIVE FoldAnd(_)
FoldAnd(es) ==
    IF Len(es) = 1 THEN es[1]
    ELSE AndExpr(FoldAnd(SubSeq(es, 1, Len(es) - 1)), es[Len(es)])

RECURSIVE FoldOr(_)
FoldOr(es) ==
    IF Len(es) = 1 THEN es[1]
    ELSE OrExpr(FoldOr(SubSeq(es, 1, Len(es) - 1)), es[Len(es)])

TermExprs(ws) == [i \in 1..Len(ws) |-> TermExpr(ws[i])]

\* C3: a query of n >= 2 whitespace-separated terms (words, label: terms,
\* negated terms, none the keyword OR) parses to the left-associative fold
\* And(...And(And(e1, e2), e3)..., en) of the terms' expressions, in order.
C3_ImplicitAnd ==
    LET ws == Words(query) IN
    (Parsed /\ Len(ws) >= 2 /\ \A i \in 1..Len(ws) : IsTerm(ws[i]))
        => ast = FoldAnd(TermExprs(ws))

\* C3 witness: three or more terms, a negated one and a label among them,
\* have been parsed to a conjunction whose left operand is a conjunction
C3_Witness ==
    LET ws == Words(query) IN
    /\ Parsed
    /\ Len(ws) >= 3
    /\ \A i \in 1..Len(ws) : IsTerm(ws[i])
    /\ \E i \in 1..Len(ws) : ws[i][1] = "-"
    /\ \E i \in 1..Len(ws) : IsLabelWord(ws[i])
    /\ ast.type = "AndExpr"
    /\ ast.left.type = "AndExpr"

\* the runs of words between the OR keywords
RECURSIVE GroupsFrom(_, _, _)
GroupsFrom(ws, group, done) ==
    IF ws = <<>> THEN Append(done, group)
    ELSE IF IsOrWord(Head(ws))
         THEN GroupsFrom(Tail(ws), <<>>, Append(done, group))
    ELSE GroupsFrom(Tail(ws), Append(group, Head(ws)), done)
Groups(ws) == GroupsFrom(ws, <<>>, <<>>)

\* no And node has an Or node as a child
RECURSIVE NoOrUnderAnd(_)
NoOrUnderAnd(e) ==
    CASE e.type = "AndExpr" ->
            /\ e.left.type # "OrExpr" /\ e.right.type # "OrExpr"
            /\ NoOrUnderAnd(e.left) /\ NoOrUnderAnd(e.right)
      [] e.type = "OrExpr" -> NoOrUnderAnd(e.left) /\ NoOrUnderAnd(e.right)
      [] e.type = "NotExpr" -> NoOrUnderAnd(e.expr)
      [] OTHER -> TRUE

\* C4: a parenthesis-free query G1 OR G2 OR ... OR Gk, each Gi a non-empty
\* run of adjacent terms, parses to Or(...Or(A1, A2)..., Ak), Ai the
\* implicit-AND fold of Gi; and in the tree of a parenthesis-free query no And
\* node has an Or node as a child.
C4_OrLooserThanAnd ==
    LET ws == Words(query)
        gs == Groups(ws)
    IN (Parsed /\ \A i \in 1..Len(ws) : IsWord(ws[i]))
        => /\ NoOrUnderAnd(ast)
           /\ (ws # <<>> /\ \A i \in 1..Len(gs) : gs[i] # <<>>)
                 => ast = FoldOr([i \in 1..Len(gs) |->
                                     FoldAnd(TermExprs(gs[i]))])

\* C4 witness: three groups, the first of two terms, have been parsed to an
\* Or whose left operand is an Or whose left operand is an And
C4_Witness ==
    LET gs == Groups(Words(query)) IN
    /\ Parsed
    /\ Len(gs) = 3
    /\ Len(gs[1]) = 2 /\ Len(gs[2]) = 1 /\ Len(gs[3]) = 1
    /\ ast.type = "OrExpr"
    /\ ast.left.type = "OrExpr"
    /\ ast.left.left.type = "AndExpr"

\* C8: OR in any letter case between two terms is the OR operator, and a word
\* whose first six characters are `label:` in any letter case parses to
\* LabelFilter of the rest of the word, its letter case unchanged (the rest
\* may be empty).
C8_KeywordCase ==
    LET ws == Words(query) IN
    Parsed =>
        /\ (Len(ws) = 3 /\ IsOrWord(ws[2]) /\ IsTerm(ws[1]) /\ IsTerm(ws[3]))
              => ast = OrExpr(TermExpr(ws[1]), TermExpr(ws[3]))
        /\ (IsWord(query) /\ IsLabelWord(query))
              => ast = LabelFilter(SubSeq(query, 7, Len(query)))

\* C8 witness: `LABEL:Xy oR a` has been parsed to Or(LabelFilter('Xy'), a)
C8_Witness ==
    LET ws == Words(query) IN
    /\ Parsed
    /\ Len(ws) = 3
    /\ ws[1] = <<"L", "A", "B", "E", "L", ":", "X", "y">>
    /\ ws[2] = <<"o", "R">>
    /\ ast = OrExpr(LabelFilter(<<"X", "y">>), TextSearch(<<"a">>))

\* the positions (1-based) of a character in the query
Positions(ch) == {i \in 1..Len(query) : query[i] = ch}

\* Q: parenthesis-free, every OR with a term on both sides
IsGroupBody(q) ==
    LET ws == Words(q)
        gs == Groups(ws)
    IN /\ ws # <<>>
       /\ \A i \in 1..Len(ws) : IsWord(ws[i])
       /\ \A i \in 1..Len(gs) : gs[i] # <<>>

\* C6: a parenthesized group is one operand.  For a parenthesis-free Q in
\* which every OR has a term on both sides, E = parse_query(Q), and a term t
\* with expression e: parse_query('(Q)') = E, parse_query('(Q) t') =
\* And(E, e), parse_query('t (Q)') = And(e, E), and parse_query('(Q') = E.
C6_Grouping ==
    LET n == Len(query)
        open == Positions("(")
        close == Positions(")")
    IN Parsed =>
        /\ (open = {1} /\ close = {n} /\ IsGroupBody(SubSeq(query, 2, n - 1)))
              => ast = ParseQuery(SubSeq(query, 2, n - 1))
        /\ (open = {1} /\ close = {} /\ IsGroupBody(SubSeq(query, 2, n)))
              => ast = ParseQuery(SubSeq(query, 2, n))
        /\ \A k \in 3..(n - 2) :
              (/\ open = {1} /\ close = {k} /\ query[k + 1] = " "
               /\ IsGroupBody(SubSeq(query, 2, k - 1))
               /\ IsTerm(SubSeq(query, k + 2, n)))
              => ast = AndExpr(ParseQuery(SubSeq(query, 2, k - 1)),
                               TermExpr(SubSeq(query, k + 2, n)))
        /\ \A k \in 3..(n - 2) :
              (/\ open = {k} /\ close = {n} /\ query[k - 1] = " "
               /\ IsGroupBody(SubSeq(query, k + 1, n - 1))
               /\ IsTerm(SubSeq(query, 1, k - 2)))
              => ast = AndExpr(TermExpr(SubSeq(query, 1, k - 2)),
                               ParseQuery(SubSeq(query, k + 1, n - 1)))

\* C6 witness: `(Q) t` with an OR in Q has been parsed to And(Or(..), e)
C6_Witness ==
    /\ Parsed
    /\ query[1] = "("
    /\ \E k \in Positions(")") : k < Len(query)
    /\ ast.type = "AndExpr"
    /\ ast.left.type = "OrExpr"
    /\ ast.right.type \in {"TextSearch", "NotExpr"}

\* v with a backslash before each double quote
RECURSIVE Escaped(_)
Escaped(v) ==
    IF v = <<>> THEN <<>>
    ELSE IF Head(v) = QUOTE THEN <<"\\", QUOTE>> \o Escaped(Tail(v))
    ELSE <<Head(v)>> \o Escaped(Tail(v))

\* the backend syntax: CONTAINS(CONCATENATE([Title], " ", [Content]), "v"),
\* CONTAINS([Labels], "v"), NOT(e), AND(l, r), OR(l, r)
BackendText(v) ==
    <<"C", "O", "N", "T", "A", "I", "N", "S", "(", "C", "O", "N", "C", "A",
      "T", "E", "N", "A", "T", "E", "(", "[", "T", "i", "t", "l", "e", "]",
      ",", " ", QUOTE, " ", QUOTE, ",", " ", "[", "C", "o", "n", "t", "e",
      "n", "t", "]", ")", ",", " ", QUOTE>>
    \o Escaped(v) \o <<QUOTE, ")">>
BackendLabel(v) ==
    <<"C", "O", "N", "T", "A", "I", "N", "S", "(", "[", "L", "a", "b", "e",
      "l", "s", "]", ",", " ", QUOTE>>
    \o Escaped(v) \o <<QUOTE, ")">>

RECURSIVE Backend(_)
Backend(e) ==
    CASE e.type = "TextSearch" -> BackendText(e.value)
      [] e.type = "LabelFilter" -> BackendLabel(e.value)
      [] e.type = "NotExpr" -> <<"N", "O", "T", "(">> \o Backend(e.expr) \o <<")">>
      [] e.type = "AndExpr" ->
            <<"A", "N", "D", "(">> \o Backend(e.left) \o <<",", " ">>
            \o Backend(e.right) \o <<")">>
      [] e.type = "OrExpr" ->
            <<"O", "R", "(">> \o Backend(e.left) \o <<",", " ">>
            \o Backend(e.right) \o <<")">>

\* C10: for every tree _query_to_selector returns exactly the backend syntax
\* of the tree, by structural recursion, the left operand before the right
\* one and nothing else added.
C10_Compile ==
    pc = "compiled" =>
        /\ ~condition.raised
        /\ condition.text = Backend(ast)

\* C10 witness: And(Not(e), TextSearch('a"b')) has been compiled, the quote
\* escaped
C10_Witness ==
    /\ pc = "compiled"
    /\ ast.type = "AndExpr"
    /\ ast.left.type = "NotExpr"
    /\ ast.right = TextSearch(<<"a", QUOTE, "b">>)
    /\ SubSeq(condition.text, Len(condition.text) - 7,
              Len(condition.text)) = <<QUOTE, "a", "\\", QUOTE, "b", QUOTE, ")", ")">>

SpecList == InitList /\ [][NextList]_vars

SpecAny == InitAny /\ [][NextCompile]_vars

SpecTokenize == InitTokenize /\ [][NextTokenize]_vars

SpecValues == InitValues /\ [][NextCompile]_vars

(***************************************************************************)
(* The string literal of a compiled leaf, as the backend reads it.  The    *)
(* compiler escapes with a backslash, so a backslash takes the character   *)
(* after it into the literal and the first quote not taken so closes it.   *)
(***************************************************************************)
\* where the literal opened just before position k (0-based) closes;
\* Len(text) when it does not close
RECURSIVE LiteralClose(_, _)
LiteralClose(text, k) ==
    IF k >= Len(text) THEN Len(text)
    ELSE IF At(text, k) = "\\" THEN LiteralClose(text, k + 2)
    ELSE IF At(text, k) = QUOTE THEN k
    ELSE LiteralClose(text, k + 1)

IsLeaf(e) == e.type \in {"TextSearch", "LabelFilter"}
LiteralStart(e) == IF e.type = "TextSearch" THEN Len(TextOpen) ELSE Len(LabelOpen)

\* C11: for every leaf value the string literal that embeds the value in the
\* compiled predicate is closed only by the closing quote the compiler adds
\* (the quote before the final parenthesis), so that the predicate stays
\* well-formed.
C11_LiteralClosedByCompiler ==
    (pc = "compiled" /\ IsLeaf(ast)) =>
        /\ ~condition.raised
        /\ LiteralClose(condition.text, LiteralStart(ast))
               = Len(condition.text) - 2
(***************************************************************************)
(* The selector of list, written out from the query, the sort, the tree    *)
(* and the compiled condition                                              *)
(***************************************************************************)
Listed == pc = "listed"

\* OrderBy(<base>, [<f>], TRUE|FALSE)
OrderByText(base, f, d) ==
    <<"O", "r", "d", "e", "r", "B", "y", "(">> \o base \o <<",", " ", "[">>
    \o f \o <<"]", ",", " ">>
    \o (IF d THEN <<"T", "R", "U", "E">> ELSE <<"F", "A", "L", "S", "E">>)
    \o <<")">>

\* Filter(Note, <compiled condition>)
FilterText ==
    <<"F", "i", "l", "t", "e", "r", "(", "N", "o", "t", "e", ",", " ">>
    \o condition.text \o <<")">>

StartsWithDash(s) == s # <<>> /\ s[1] = "-"

\* s with its leading '-' removed and its first letter capitalized
FieldAsClaimed(s) ==
    LET r == IF StartsWithDash(s) THEN Tail(s) ELSE s
    IN [k \in 1..Len(r) |-> IF k = 1 THEN UpperChar(r[k]) ELSE r[k]]

\* s with every leading '-' removed, its first character in upper case and
\* the others in lower case
RECURSIVE NoLeadingDashes(_)
NoLeadingDashes(s) == IF StartsWithDash(s) THEN NoLeadingDashes(Tail(s)) ELSE s
FieldAsBuilt(s) ==
    LET r == NoLeadingDashes(s)
    IN [k \in 1..Len(r) |-> IF k = 1 THEN UpperChar(r[k]) ELSE LowerChar(r[k])]

\* C12 as claimed: with a sort string s the selector is OrderBy(B, [F], D), B
\* the filter of the tree or the table when no query is given, F the string s
\* with its leading '-' removed and its first letter capitalized, D TRUE
\* exactly when s starts with '-'; with a tree and no sort it is the filter;
\* with neither nothing is sent.
C12_SortAsClaimed ==
    Listed =>
        /\ (ast # None /\ sort # <<>>) =>
              selector = [sent |-> TRUE,
                          text |-> OrderByText(FilterText, FieldAsClaimed(sort),
                                               StartsWithDash(sort))]
        /\ (query = <<>> /\ sort # <<>>) =>
              selector = [sent |-> TRUE,
                          text |-> OrderByText(<<"N", "o", "t", "e">>,
                                               FieldAsClaimed(sort),
                                               StartsWithDash(sort))]
        /\ (ast # None /\ sort = <<>>) =>
              selector = [sent |-> TRUE, text |-> FilterText]
        /\ (ast = None /\ sort = <<>>) => ~selector.sent

\* C12 amended: the same with F the string s with every leading '-' removed,
\* its first character in upper case and all its other characters in lower
\* case (str.lstrip and str.capitalize).
C12_Sort ==
    Listed =>
        /\ (ast # None /\ sort # <<>>) =>
              selector = [sent |-> TRUE,
                          text |-> OrderByText(FilterText, FieldAsBuilt(sort),
                                               StartsWithDash(sort))]
        /\ (query = <<>> /\ sort # <<>>) =>
              selector = [sent |-> TRUE,
                          text |-> OrderByText(<<"N", "o", "t", "e">>,
                                               FieldAsBuilt(sort),
                                               StartsWithDash(sort))]
        /\ (ast # None /\ sort = <<>>) =>
              selector = [sent |-> TRUE, text |-> FilterText]
        /\ (ast = None /\ sort = <<>>) => ~selector.sent

\* C12 witness: list has built the selector of a tree under the sort '-mO':
\* OrderBy(Filter(Note, ...), [Mo], TRUE)
C12_Witness ==
    /\ Listed
    /\ ast # None
    /\ sort = <<"-", "m", "O">>
    /\ selector.sent
    /\ SubSeq(selector.text, 1, 15)
         = <<"O", "r", "d", "e", "r", "B", "y", "(", "F", "i", "l", "t", "e",
             "r", "(">>
    /\ SubSeq(selector.text, Len(selector.text) - 12, Len(selector.text))
         = <<",", " ", "[", "M", "o", "]", ",", " ", "T", "R", "U", "E", ")">>
\* C13: whenever the query yields no expression (not given, empty,
\* whitespace-only, or any query that parse_query turns into None) and the
\* sort string is not empty, the selector list builds is
\* OrderBy(<table>, [F], D): the requested sort is never dropped.
C13_SortNeverDropped ==
    (Listed /\ ast = None /\ sort # <<>>) =>
        selector = [sent |-> TRUE,
                    text |-> OrderByText(<<"N", "o", "t", "e">>,
                                         FieldAsBuilt(sort),
                                         StartsWithDash(sort))]
\* some node of e, e itself included, is not one of the five variants
RECURSIVE HasUnknown(_)
HasUnknown(e) ==
    CASE e.type \in {"TextSearch", "LabelFilter"} -> FALSE
      [] e.type = "NotExpr" -> HasUnknown(e.expr)
      [] e.type \in {"AndExpr", "OrExpr"} ->
            HasUnknown(e.left) \/ HasUnknown(e.right)
      [] OTHER -> TRUE

\* C14: _query_to_selector raises, and returns no predicate, whenever its
\* argument or a node reached through Not/And/Or children is not one of the
\* five variants (None included).
C14_UnknownRaises ==
    (pc = "compiled" /\ HasUnknown(ast)) =>
        /\ condition.raised
        /\ condition.text = <<>>

\* C14 witness: And(leaf, Not(None)) has been given to the compiler, which
\* raised
C14_Witness ==
    /\ pc = "compiled"
    /\ ast.type = "AndExpr"
    /\ ast.left.type = "TextSearch"
    /\ ast.right = [type |-> "NotExpr", expr |-> [type |-> "None"]]
    /\ condition.raised
(***************************************************************************)
(* The shape of the trees parse_query returns                              *)
(***************************************************************************)
IsNode(e) == e.type \in ExprTypes

\* every Not node has a node as child, every And and Or node two nodes
RECURSIVE WellFormed(_)
WellFormed(e) ==
    CASE e.type \in {"TextSearch", "LabelFilter"} -> TRUE
      [] e.type = "NotExpr" -> IsNode(e.expr) /\ WellFormed(e.expr)
      [] e.type \in {"AndExpr", "OrExpr"} ->
            /\ IsNode(e.left) /\ WellFormed(e.left)
            /\ IsNode(e.right) /\ WellFormed(e.right)
      [] OTHER -> FALSE

Max2(a, b) == IF a >= b THEN a ELSE b

\* the depth of a tree: its levels of nesting, none for a leaf
RECURSIVE Depth(_)
Depth(e) ==
    CASE e.type = "NotExpr" -> 1 + Depth(e.expr)
      [] e.type \in {"AndExpr", "OrExpr"} ->
            1 + Max2(Depth(e.left), Depth(e.right))
      [] OTHER -> 0

RECURSIVE LeafCount(_)
LeafCount(e) ==
    CASE e.type \in {"TextSearch", "LabelFilter"} -> 1
      [] e.type = "NotExpr" -> LeafCount(e.expr)
      [] e.type \in {"AndExpr", "OrExpr"} ->
            LeafCount(e.left) + LeafCount(e.right)
      [] OTHER -> 0

\* C15: in every tree parse_query returns every Not node has a child that is
\* a node and every And and Or node two children that are nodes, never None;
\* the depth of the tree (its levels of nesting) and its number of leaves
\* are at most the number of tokens; and the compiler does not raise its
\* unknown-variant error on such a tree.
C15_WellFormedTree ==
    /\ (Parsed /\ ast # None) =>
          /\ WellFormed(ast)
          /\ Depth(ast) <= Len(tokens)
          /\ LeafCount(ast) <= Len(tokens)
    /\ pc = "compiled" => ~condition.raised

\* C15 witness: a tree with a Not below an And, as deep as the query has
\* tokens and with as many leaves, has been parsed and compiled
C15_Witness ==
    /\ pc = "compiled"
    /\ ast.type = "AndExpr"
    /\ ast.left.type = "NotExpr"
    /\ Depth(ast) = Len(tokens)
    /\ LeafCount(ast) = Len(tokens)
    /\ ~condition.raised
(***************************************************************************)
(* The tokens of a string, described from the string                       *)
(***************************************************************************)
Tokenized == pc = "tokenized"

\* the number of double quotes among the first n characters of the query
QuotesBefore(n) == Cardinality({k \in 1..n : query[k] = QUOTE})

\* position p opens a phrase; position p is outside every phrase
OpensPhrase(p) == query[p] = QUOTE /\ QuotesBefore(p - 1) % 2 = 0
Outside(p) == query[p] # QUOTE /\ QuotesBefore(p - 1) % 2 = 0

\* position p holds a character of a word
InWord(p) == Outside(p) /\ query[p] \notin {" ", "\t", "\n", "(", ")"}

\* position p starts a maximal run of word characters
StartsRun(p) == InWord(p) /\ (p = 1 \/ ~InWord(p - 1))

\* the tokens written one after the other
RECURSIVE Concat(_)
Concat(ts) == IF ts = <<>> THEN <<>> ELSE Head(ts) \o Concat(Tail(ts))

\* the query without the whitespace that is outside the phrases
Kept == {p \in 1..Len(query) : ~(Outside(p) /\ query[p] \in {" ", "\t", "\n"})}
RECURSIVE KeptFrom(_)
KeptFrom(p) ==
    IF p > Len(query) THEN <<>>
    ELSE (IF p \in Kept THEN <<query[p]>> ELSE <<>>) \o KeptFrom(p + 1)

IsParenToken(t) == t \in {<<"(">>, <<")">>}
IsPhraseToken(t) ==
    /\ t[1] = QUOTE
    /\ \A k \in 2..(Len(t) - 1) : t[k] # QUOTE
IsWordToken(t) == \A k \in 1..Len(t) : t[k] \notin {" ", "\t", "\n", "(", ")", QUOTE}

TokensWhere(P(_)) == {k \in 1..Len(tokens) : P(tokens[k])}

\* C16: outside quoted phrases whitespace produces no token and is in no
\* token, each parenthesis is a token of its own, every other maximal run of
\* non-whitespace, non-parenthesis, non-quote characters is one word token
\* (a leading '-' kept); no token is empty, and the tokens in order, written
\* one after the other, are the input without the whitespace that is outside
\* the phrases.
C16_Tokens ==
    Tokenized =>
        /\ \A k \in 1..Len(tokens) :
              /\ tokens[k] # <<>>
              /\ IsParenToken(tokens[k]) \/ IsPhraseToken(tokens[k])
                    \/ IsWordToken(tokens[k])
        /\ Concat(tokens) = KeptFrom(1)
        /\ Cardinality(TokensWhere(IsParenToken))
              = Cardinality({p \in 1..Len(query) :
                                Outside(p) /\ query[p] \in {"(", ")"}})
        /\ Cardinality(TokensWhere(IsPhraseToken))
              = Cardinality({p \in 1..Len(query) : OpensPhrase(p)})
        /\ Cardinality({k \in 1..Len(tokens) :
                           ~IsParenToken(tokens[k]) /\ ~IsPhraseToken(tokens[k])})
              = Cardinality({p \in 1..Len(query) : StartsRun(p)})

\* C16 witness: 'a(-' between blanks has been split into the word, the
\* parenthesis and the word '-'
C16_Witness ==
    /\ Tokenized
    /\ \E k \in 1..Len(query) : query[k] = " "
    /\ tokens = <<<<"a">>, <<"(">>, <<"-">>>>
\* the values of the leaves of a tree
RECURSIVE LeafValuesOf(_)
LeafValuesOf(e) ==
    CASE e.type \in {"TextSearch", "LabelFilter"} -> {e.value}
      [] e.type = "NotExpr" -> LeafValuesOf(e.expr)
      [] e.type \in {"AndExpr", "OrExpr"} ->
            LeafValuesOf(e.left) \cup LeafValuesOf(e.right)
      [] OTHER -> {}

\* C17: no leaf value of a tree parse_query returns contains a double quote,
\* so that the compiler's quote escaping changes no value of such a tree:
\* the compiled text holds every value as it is.
C17_NoQuoteInValues ==
    /\ Parsed => \A v \in LeafValuesOf(ast) : QUOTE \notin Range(v)
    /\ pc = "compiled" =>
          /\ \A v \in LeafValuesOf(ast) : Escaped(v) = v
          /\ "\\" \in Range(condition.text)
                => \E v \in LeafValuesOf(ast) : "\\" \in Range(v)

\* C17 witness: a phrase and a word that ends where a phrase opens have been
\* parsed and compiled
C17_Witness ==
    /\ pc = "compiled"
    /\ Len(tokens) = 2
    /\ tokens[1][1] # QUOTE
    /\ tokens[2][1] = QUOTE /\ Len(tokens[2]) >= 3
    /\ ast.type = "AndExpr"
    /\ ast.right.type = "TextSearch" /\ ast.right.value # <<>>
\* the values of the TextSearch leaves of a tree
RECURSIVE TextValuesOf(_)
TextValuesOf(e) ==
    CASE e.type = "TextSearch" -> {e.value}
      [] e.type = "NotExpr" -> TextValuesOf(e.expr)
      [] e.type \in {"AndExpr", "OrExpr"} ->
            TextValuesOf(e.left) \cup TextValuesOf(e.right)
      [] OTHER -> {}

\* C18: a parenthesis token is never classified as a search term: for a
\* query without quoted phrases, no TextSearch node of the returned tree has
\* the value '(' or ')'.
C18_NoParenTerm ==
    (Parsed /\ QUOTE \notin Range(query)) =>
        \A v \in TextValuesOf(ast) : v \notin {<<"(">>, <<")">>}
(***************************************************************************)
(* An unmatched ')' at top level                                           *)
(***************************************************************************)
IsOrToken(t) == Upper(t) = <<"O", "R">>

\* the number of '(' minus the number of ')' among the first n tokens of ts
Open(ts, n) ==
    Cardinality({k \in 1..n : ts[k] = <<"(">>})
    - Cardinality({k \in 1..n : ts[k] = <<")">>})

\* the parentheses of ts are balanced
Balanced(ts) ==
    /\ \A n \in 1..Len(ts) : Open(ts, n) >= 0
    /\ Open(ts, Len(ts)) = 0

\* every OR of ts has an operand on both sides
OrBetweenOperands(ts) ==
    \A k \in 1..Len(ts) :
        IsOrToken(ts[k]) =>
            /\ k > 1 /\ ~IsOrToken(ts[k - 1]) /\ ts[k - 1] # <<"(">>
            /\ k < Len(ts) /\ ~IsOrToken(ts[k + 1]) /\ ts[k + 1] # <<")">>

\* what the parser returns for the tokens ts
ParseTokens(ts) == Run(Parser(ts)).ret

\* C19: when the tokens are A, ')' and B, with the parentheses of A balanced
\* and every OR of A between two operands, the parse returns the tree of A
\* alone and leaves the ')' and the tokens of B unconsumed.
C19_UnmatchedCloseEndsParse ==
    Parsed =>
        \A k \in 1..Len(tokens) :
            LET A == SubSeq(tokens, 1, k - 1) IN
            (tokens[k] = <<")">> /\ Balanced(A) /\ OrBetweenOperands(A)) =>
                /\ ast = ParseTokens(A)
                /\ token_pos = k - 1
\* no '(' of ts is directly followed by ')'
NoEmptyGroup(ts) ==
    \A k \in 1..(Len(ts) - 1) : ~(ts[k] = <<"(">> /\ ts[k + 1] = <<")">>)

\* the same relation for the sequences A that are not empty and hold no
\* empty group, where no ')' stands in the place of an operand: it holds
UnmatchedCloseAfterOperands ==
    Parsed =>
        \A k \in 1..Len(tokens) :
            LET A == SubSeq(tokens, 1, k - 1) IN
            (/\ tokens[k] = <<")">>
             /\ A # <<>> /\ NoEmptyGroup(A)
             /\ Balanced(A) /\ OrBetweenOperands(A)) =>
                /\ ast = ParseTokens(A)
                /\ token_pos = k - 1
====
